---- MODULE Spec2Model ----
(***************************************************************************)
(* Model of the MiniOS boot media tools:                                   *)
(*   tools/create_image.py  (raw disk image builder)                       *)
(*   tools/create_iso.py    (ISO builder with its three packaging          *)
(*                           strategies)                                   *)
(*                                                                         *)
(* A byte string (Python `bytes`, or the content of a file) is modelled    *)
(* run-length encoded: a sequence of runs [b |-> byte value, n |-> count]  *)
(* with n > 0 and no two adjacent runs of the same byte value.  Two byte   *)
(* strings are equal exactly when their encodings are equal, so the real   *)
(* sizes of the program (1 MiB, 16 MiB, 512, 2 MiB) are kept.              *)
(***************************************************************************)
EXTENDS Integers, Sequences, FiniteSets, TLC

(***************************************************************************)
(* Bounds of the model.                                                    *)
(***************************************************************************)
\* the largest number of runs of an input file's content
MaxRuns == 2

\* byte values the input files are made of
ByteVals == {0, 170}

(***************************************************************************)
(* Program constants.                                                      *)
(***************************************************************************)
\* create_image.py:45  (1024 * 1024)
MiB == 1024 * 1024

\* create_image.py:56  min_size = 16 * 1024 * 1024
ImageMinSize == 16 * 1024 * 1024

\* create_iso.py:129  sector_size = 512
sector_size == 512

\* create_iso.py:141  min_size = 2 * 1024 * 1024
IsoMinSize == 2 * 1024 * 1024

\* run lengths the bootloader's and the kernel's content are built from
BootLens == {1, 511, MiB}

KernelLens == {1, MiB, ImageMinSize}

(***************************************************************************)
(* Byte strings.                                                           *)
(***************************************************************************)
Run(b, n) == [b |-> b, n |-> n]

\* b'\x00' * n : empty for n <= 0
Zeros(n) == IF n > 0 THEN << Run(0, n) >> ELSE << >>

\* len(data)
RECURSIVE Size(_)
Size(data) == IF data = << >> THEN 0 ELSE Head(data).n + Size(Tail(data))

\* data followed by one more run, in canonical form
AppendRun(data, r) ==
    IF r.n <= 0 THEN data
    ELSE IF data # << >> /\ data[Len(data)].b = r.b
         THEN [data EXCEPT ![Len(data)].n = @ + r.n]
         ELSE Append(data, r)

\* a + b on bytes
RECURSIVE Concat(_, _)
Concat(a, b) == IF b = << >> THEN a ELSE Concat(AppendRun(a, Head(b)), Tail(b))

\* data[:k]
RECURSIVE Take(_, _)
Take(data, k) ==
    IF k <= 0 \/ data = << >> THEN << >>
    ELSE IF Head(data).n >= k THEN << Run(Head(data).b, k) >>
    ELSE << Head(data) >> \o Take(Tail(data), k - Head(data).n)

\* data[k:]
RECURSIVE Drop(_, _)
Drop(data, k) ==
    IF k <= 0 \/ data = << >> THEN data
    ELSE IF Head(data).n > k
         THEN << Run(Head(data).b, Head(data).n - k) >> \o Tail(data)
         ELSE Drop(Tail(data), k - Head(data).n)

\* data[lo:hi]
Slice(data, lo, hi) == Take(Drop(data, lo), hi - lo)

\* every byte of data is 0x00
AllZero(data) == \A i \in 1..Len(data) : data[i].b = 0

\* canonical encodings: positive run lengths, adjacent runs differ
Canonical(data) ==
    /\ \A i \in 1..Len(data) : data[i].n > 0
    /\ \A i \in 1..(Len(data) - 1) : data[i].b # data[i + 1].b

\* the contents an input file may have: at most maxRuns runs of the given lengths
BlobsOf(lens, maxRuns) ==
    { d \in UNION { [1..k -> [b : ByteVals, n : lens]] : k \in 0..maxRuns } :
        Canonical(d) }

(***************************************************************************)
(* State.                                                                  *)
(***************************************************************************)
VARIABLES
    prog,           \* which entry point runs: "image" or "iso"
    arch,           \* args.arch (create_image.py only)
    kernelExists,   \* a file exists at args.kernel
    kernelData,     \* its content
    bootExists,     \* a file exists at args.bootloader
    bootData,       \* its content
    installed,      \* the packaging tools `which` finds on this host
    flaky,          \* on this host subprocess.run may raise or never return
    outAtStart,     \* << outExists, outData >> when the run started
    outDirAtStart,  \* outDirExists when the run started
    outDirExists,   \* the parent directory of args.output exists
    outExists,      \* a file exists at args.output
    outData,        \* its content
    tempDir,        \* the staging directory: "none", "exists", "removed"
    pc,             \* the position of main()
    cmdIdx,         \* the index of cmd_name in the loop of create_iso_with_mkisofs
    success,        \* main's variable success
    raised,         \* an exception is propagating out of main
    exitCode,       \* the process exit status, -1 while running
    kernel_offset,  \* create_arm64_image's variable kernel_offset, -1 if unset
    final_size,     \* create_arm64_image's variable final_size, -1 if unset
    calls,          \* the subprocess.run calls made so far, with their outcomes
    attempts,       \* the packaging strategies main has called so far
    results,        \* what the strategies that returned have returned
    diagnostics,    \* the failure messages the strategies have printed
    toolWrote,      \* a packaging tool that failed has written to args.output
    ioFault,        \* an I/O operation of this run has failed
    rerun,          \* this is the second run of the raw image builder
    firstOut        \* the image the first run built, << >> in the first run

inputs == << prog, arch, kernelExists, kernelData, bootExists, bootData,
             installed, flaky, outAtStart, outDirAtStart >>

outFile == << outExists, outData >>

imgState == << kernel_offset, final_size >>

isoState == << tempDir, cmdIdx, calls, attempts, results, diagnostics,
              toolWrote >>

earlier == << rerun, firstOut >>

vars == << inputs, outDirExists, outFile, pc, success, raised, exitCode,
           imgState, isoState, ioFault, earlier >>

\* the tool names create_iso.py probes with `which`
ToolNames == {"grub-mkrescue", "mkisofs", "genisoimage"}

\* what an earlier run may have left at args.output
OldOutputs == { << Run(255, ImageMinSize + MiB + 3) >> }

\* Inputs of up to MaxRuns runs are explored for the raw image builder and
\* for the ISO builder on a host without packaging tools; with tools
\* installed or a flaky host, inputs of at most one run.
InputRuns(p, tools, fl) == IF p = "iso" /\ (tools # {} \/ fl) THEN 1 ELSE MaxRuns

Init ==
    /\ prog \in {"image", "iso"}
    /\ arch \in IF prog = "image" THEN {"arm64", "x86_64"} ELSE {"x86_64"}
    /\ installed \in IF prog = "iso" THEN SUBSET ToolNames ELSE {{}}
    /\ flaky \in IF prog = "iso" THEN BOOLEAN ELSE {FALSE}
    /\ kernelExists \in BOOLEAN
    /\ kernelData \in IF kernelExists
                      THEN BlobsOf(KernelLens, InputRuns(prog, installed, flaky))
                      ELSE {<< >>}
    /\ bootExists \in BOOLEAN
    /\ bootData \in IF bootExists
                    THEN BlobsOf(BootLens, InputRuns(prog, installed, flaky))
                    ELSE {<< >>}
    /\ outDirExists \in BOOLEAN
    /\ outExists \in IF outDirExists THEN BOOLEAN ELSE {FALSE}
    /\ outData \in IF outExists THEN OldOutputs ELSE {<< >>}
    /\ outAtStart = << outExists, outData >>
    /\ outDirAtStart = outDirExists
    /\ tempDir = "none"
    /\ pc = "validate"
    /\ cmdIdx = 0
    /\ success = FALSE
    /\ raised = FALSE
    /\ exitCode = -1
    /\ kernel_offset = -1
    /\ final_size = -1
    /\ calls = << >>
    /\ attempts = << >>
    /\ results = << >>
    /\ diagnostics = << >>
    /\ toolWrote = FALSE
    /\ ioFault = FALSE
    /\ rerun = FALSE
    /\ firstOut = << >>

(***************************************************************************)
(* create_image.py                                                         *)
(***************************************************************************)
\* padding_needed = (1024 * 1024) - (current_size % (1024 * 1024))
padding_needed(current_size) == MiB - (current_size % MiB)

\* BootPadding without the test of line 46: a full unit of padding is
\* written when the bootloader already ends on a boundary
BootPadding_AlwaysPad(current_size) == Zeros(padding_needed(current_size))

\* the bytes written between the bootloader and the kernel (lines 44-47)
BootPadding(current_size) ==
    IF padding_needed(current_size) < MiB
    THEN Zeros(padding_needed(current_size))
    ELSE << >>

\* ImageTailPadding that also rounds a longer image up to a 1 MiB boundary
ImageTailPadding_RoundUp(current_size) ==
    IF current_size < ImageMinSize
    THEN Zeros(ImageMinSize - current_size)
    ELSE Zeros((MiB - (current_size % MiB)) % MiB)

\* ImageTailPadding one byte short
ImageTailPadding_OffByOne(current_size) ==
    IF current_size < ImageMinSize
    THEN Zeros(ImageMinSize - current_size - 1)
    ELSE << >>

\* the bytes written after the kernel (lines 55-58)
ImageTailPadding(current_size) ==
    IF current_size < ImageMinSize
    THEN Zeros(ImageMinSize - current_size)
    ELSE << >>

\* ImageChunks with the kernel written right after the bootloader and the
\* alignment padding after it
ImageChunks_PadAfterKernel(bootloader_data, kernel_data) ==
    LET pad1 == Zeros((MiB - (Size(bootloader_data) % MiB)) % MiB)
        cur  == Size(bootloader_data) + Size(pad1) + Size(kernel_data)
    IN  << bootloader_data, kernel_data, pad1,
           IF cur < ImageMinSize THEN Zeros(ImageMinSize - cur) ELSE << >> >>

\* the four f.write calls of create_arm64_image, in order (lines 41-58)
ImageChunks(bootloader_data, kernel_data) ==
    LET pad1 == BootPadding(Size(bootloader_data))
        cur  == Size(bootloader_data) + Size(pad1) + Size(kernel_data)
    IN  << bootloader_data, pad1, kernel_data, ImageTailPadding(cur) >>

\* the file after the first k of the writes
RECURSIVE Written(_, _)
Written(chunks, k) ==
    IF k = 0 THEN << >> ELSE Concat(Written(chunks, k - 1), chunks[k])

\* the points where create_arm64_image can fail
ImageFaults == {"none", "read_kernel", "read_bootloader", "open",
                "write1", "write2", "write3", "write4"}

\* the number of writes done before the one that fails
WritesBefore(fault) ==
    CASE fault = "write1" -> 0
      [] fault = "write2" -> 1
      [] fault = "write3" -> 2
      [] fault = "write4" -> 3
      [] OTHER -> 4

\* for file_path in [args.kernel, args.bootloader]: if not os.path.exists
ImgValidate ==
    /\ prog = "image" /\ pc = "validate"
    /\ IF kernelExists /\ bootExists
       THEN /\ pc' = "mkdir"
            /\ UNCHANGED exitCode
       ELSE /\ pc' = "done"
            /\ exitCode' = 1
    /\ UNCHANGED << inputs, outDirExists, outFile, success, raised, imgState,
                    isoState, ioFault,
                    earlier >>

\* if output_dir and not os.path.exists(output_dir): os.makedirs(output_dir)
ImgMakeOutputDir ==
    /\ prog = "image" /\ pc = "mkdir"
    /\ outDirExists' = TRUE
    /\ pc' = "create"
    /\ UNCHANGED << inputs, outFile, success, raised, exitCode, imgState,
                    isoState, ioFault,
                    earlier >>

\* an output opened in append mode: what the file holds is kept
ImageOpenOutput_Append(existing) == existing

\* open(output_path, 'wb'), line 39: what is left of the file's content
ImageOpenOutput(existing) == << >>

\* create_arm64_image(kernel_path, bootloader_path, output_path), with the
\* I/O operation that fails, if any
create_arm64_image(fault) ==
    LET chunks == ImageChunks(bootData, kernelData)
        k      == WritesBefore(fault)
    IN
    /\ ioFault' = (ioFault \/ fault # "none")
    /\ IF \/ ~kernelExists
          \/ (fault # "read_kernel" /\ ~bootExists)
       THEN \* except FileNotFoundError: return False
            /\ success' = FALSE
            /\ UNCHANGED << raised, outFile, imgState >>
       ELSE IF fault \in {"read_kernel", "read_bootloader"}
       THEN \* any other error of open/read is not caught
            /\ raised' = TRUE
            /\ UNCHANGED << success, outFile, imgState >>
       ELSE IF fault = "open"
       THEN \* except IOError: return False
            /\ success' = FALSE
            /\ UNCHANGED << raised, outFile, imgState >>
       ELSE \* open(output_path, 'wb') creates or truncates the file
            /\ outExists' = TRUE
            /\ outData' = Concat(ImageOpenOutput(outData), Written(chunks, k))
            /\ kernel_offset' = IF k >= 2 THEN Size(Written(chunks, 2)) ELSE -1
            /\ final_size' = IF k = 4 THEN Size(Written(chunks, 4)) ELSE -1
            /\ success' = (fault = "none")
            /\ UNCHANGED raised

\* create_x86_64_image: return create_arm64_image(...)
create_x86_64_image(fault) == create_arm64_image(fault)

\* lines 119-124 of main
ImgCreate ==
    /\ prog = "image" /\ pc = "create"
    /\ \E fault \in ImageFaults :
         IF arch = "arm64"
         THEN create_arm64_image(fault)
         ELSE create_x86_64_image(fault)
    /\ pc' = "report"
    /\ UNCHANGED << inputs, outDirExists, exitCode, isoState,
                    earlier >>

\* lines 126-131 of main; an uncaught exception ends the process with status 1
ImgExit ==
    /\ prog = "image" /\ pc = "report"
    /\ exitCode' = IF success /\ ~raised THEN 0 ELSE 1
    /\ pc' = "done"
    /\ UNCHANGED << inputs, outDirExists, outFile, success, raised, imgState,
                    isoState, ioFault,
                    earlier >>

\* the raw image builder is run a second time on the same kernel and
\* bootloader files, for either architecture, after a run that built an image;
\* in between, the file at the output path may have been removed or replaced
ImgRerun ==
    /\ prog = "image" /\ pc = "done" /\ exitCode = 0 /\ ~rerun
    /\ rerun' = TRUE
    /\ firstOut' = outData
    /\ arch' \in {"arm64", "x86_64"}
    /\ \/ UNCHANGED outFile
       \/ outExists' = FALSE /\ outData' = << >>
       \/ outExists' = TRUE /\ outData' \in OldOutputs
    /\ outAtStart' = << outExists', outData' >>
    /\ outDirAtStart' = outDirExists
    /\ pc' = "validate"
    /\ success' = FALSE
    /\ raised' = FALSE
    /\ exitCode' = -1
    /\ kernel_offset' = -1
    /\ final_size' = -1
    /\ ioFault' = FALSE
    /\ UNCHANGED << prog, kernelExists, kernelData, bootExists, bootData,
                    installed, flaky, outDirExists, isoState >>

(***************************************************************************)
(* create_iso.py                                                           *)
(***************************************************************************)
\* for cmd_name in ['mkisofs', 'genisoimage']
CmdNames == << "mkisofs", "genisoimage" >>

\* what a packaging tool that exits 0 has written to args.output
ToolIso == << Run(67, 3 * MiB) >>

\* what a packaging tool that fails may have written to args.output
ToolPartial == << Run(67, 3 * MiB - 7) >>

\* the outcomes of subprocess.run(['which', tool]) on this host
ProbeOutcomes(tool) ==
    (IF tool \in installed THEN {"zero"} ELSE {"nonzero"})
        \cup (IF flaky THEN {"raise", "hang"} ELSE {})

\* the outcomes of subprocess.run(cmd) for a packaging tool
RunOutcomes == {"zero", "nonzero"} \cup (IF flaky THEN {"raise", "hang"} ELSE {})

Call(argv, o) == [cmd |-> argv, out |-> o]

\* a failure message printed by a strategy
Diagnostic(strategy, msg) == [strategy |-> strategy, msg |-> msg]

\* create_iso_with_grub: the message printed after a subprocess.run outcome
\* (lines 72 and 76); a probe that returns non-zero prints nothing
GrubDiagnostic(step, o) ==
    CASE o = "raise"                    -> << Diagnostic("GrubRescue", "GRUB not available") >>
      [] step = "run" /\ o = "nonzero" -> << Diagnostic("GrubRescue", "GRUB error") >>
      [] OTHER                          -> << >>

\* create_iso_with_mkisofs: the message printed after a subprocess.run
\* outcome (lines 106 and 111); a probe that returns non-zero prints nothing
MkisofsDiagnostic(idx, step, o) ==
    CASE o = "raise" ->
             << Diagnostic("GenericIsoMaster", "mkisofs/genisoimage error") >>
      [] step = "run" /\ o = "nonzero" ->
             << Diagnostic("GenericIsoMaster", CmdNames[idx]) >>
      [] OTHER -> << >>

\* create_simple_iso: the message printed when an exception is caught (line 148)
SimpleDiagnostic(fault) ==
    IF fault # "none"
    THEN << Diagnostic("RawFallback", "Error creating simple image") >>
    ELSE << >>

\* GrubAfter that invokes grub-mkrescue whatever the probe said
GrubAfter_NoProbeCheck(step, o) ==
    IF step = "probe"
    THEN CASE o = "hang" -> "hang"
           [] OTHER      -> "run"
    ELSE CASE o = "zero" -> "true"
           [] o = "hang" -> "hang"
           [] OTHER      -> "false"

\* create_iso_with_grub (lines 56-77): what follows a subprocess.run outcome;
\* "run" invokes the tool, "true"/"false" is the value returned
GrubAfter(step, o) ==
    IF step = "probe"
    THEN CASE o = "zero"    -> "run"
           [] o = "nonzero" -> "false"
           [] o = "raise"   -> "false"
           [] OTHER         -> "hang"
    ELSE CASE o = "zero"    -> "true"
           [] o = "nonzero" -> "false"
           [] o = "raise"   -> "false"
           [] OTHER         -> "hang"

\* MkisofsAfter that returns False as soon as an invoked tool exits non-zero
MkisofsAfter_StopAtFirstError(idx, step, o) ==
    IF step = "probe"
    THEN CASE o = "zero"    -> "run"
           [] o = "nonzero" -> IF idx < Len(CmdNames) THEN "next" ELSE "false"
           [] o = "raise"   -> "false"
           [] OTHER         -> "hang"
    ELSE CASE o = "zero"    -> "true"
           [] o = "hang"    -> "hang"
           [] OTHER         -> "false"

\* create_iso_with_mkisofs (lines 82-112): what follows a subprocess.run
\* outcome for CmdNames[idx]; "next" is the next iteration of the loop
MkisofsAfter(idx, step, o) ==
    IF step = "probe"
    THEN CASE o = "zero"    -> "run"
           [] o = "nonzero" -> IF idx < Len(CmdNames) THEN "next" ELSE "false"
           [] o = "raise"   -> "false"
           [] OTHER         -> "hang"
    ELSE CASE o = "zero"    -> "true"
           [] o = "nonzero" -> IF idx < Len(CmdNames) THEN "next" ELSE "false"
           [] o = "raise"   -> "false"
           [] OTHER         -> "hang"

\* ChainNext that tries the next strategy whatever GrubRescue returned
ChainNext_IgnoreGrubResult(strategy, ok) ==
    CASE strategy = "GrubRescue"       -> "mkisofs_probe"
      [] strategy = "GenericIsoMaster" -> IF ok THEN "cleanup" ELSE "simple"
      [] OTHER                         -> "cleanup"

\* ChainNext that gives up when GenericIsoMaster has failed, without the
\* fallback of lines 202-204
ChainNext_NoFallback(strategy, ok) ==
    CASE strategy = "GrubRescue"       -> IF ok THEN "cleanup" ELSE "mkisofs_probe"
      [] OTHER                         -> "cleanup"

\* main, lines 198-204: where main goes when a strategy has returned ok
ChainNext(strategy, ok) ==
    CASE strategy = "GrubRescue"       -> IF ok THEN "cleanup" ELSE "mkisofs_probe"
      [] strategy = "GenericIsoMaster" -> IF ok THEN "cleanup" ELSE "simple"
      [] OTHER                         -> "cleanup"

\* a strategy returns ok to main
Return(strategy, ok) ==
    /\ results' = Append(results, ok)
    /\ success' = ok
    /\ pc' = ChainNext(strategy, ok)

\* what a packaging tool run leaves at args.output
ToolEffect(o) ==
    CASE o = "zero"    -> /\ outExists' = TRUE
                          /\ outData' = ToolIso
                          /\ UNCHANGED toolWrote
      [] o = "nonzero" -> \/ UNCHANGED << outFile, toolWrote >>
                          \/ /\ outExists' = TRUE
                             /\ outData' = ToolPartial
                             /\ toolWrote' = TRUE
      [] OTHER         -> UNCHANGED << outFile, toolWrote >>

\* a validation that looks at args.kernel only
IsoValidate_KernelOnly ==
    /\ prog = "iso" /\ pc = "validate"
    /\ IF kernelExists
       THEN /\ pc' = "mkdir"
            /\ UNCHANGED exitCode
       ELSE /\ pc' = "done"
            /\ exitCode' = 1
    /\ UNCHANGED << inputs, outDirExists, outFile, success, raised, imgState,
                    isoState, ioFault,
                    earlier >>

\* for file_path in [args.kernel, args.bootloader]: if not os.path.exists
IsoValidate ==
    /\ prog = "iso" /\ pc = "validate"
    /\ IF kernelExists /\ bootExists
       THEN /\ pc' = "mkdir"
            /\ UNCHANGED exitCode
       ELSE /\ pc' = "done"
            /\ exitCode' = 1
    /\ UNCHANGED << inputs, outDirExists, outFile, success, raised, imgState,
                    isoState, ioFault,
                    earlier >>

IsoMakeOutputDir ==
    /\ prog = "iso" /\ pc = "mkdir"
    /\ outDirExists' = TRUE
    /\ pc' = "tempdir"
    /\ UNCHANGED << inputs, outFile, success, raised, exitCode, imgState,
                    isoState, ioFault,
                    earlier >>

\* with tempfile.TemporaryDirectory() as temp_dir:
IsoEnterTempDir ==
    /\ prog = "iso" /\ pc = "tempdir"
    /\ tempDir' = "exists"
    /\ pc' = "structure"
    /\ UNCHANGED << inputs, outDirExists, outFile, success, raised, exitCode,
                    imgState, cmdIdx, calls, attempts, results, diagnostics,
                    ioFault,
                    earlier, toolWrote >>

\* create_iso_structure returns True, or an error of makedirs/copy2/open
\* propagates out of main's with block
create_iso_structure(fault) ==
    /\ ioFault' = (ioFault \/ fault)
    /\ raised' = fault
    /\ pc' = IF fault THEN "cleanup" ELSE "grub_probe"

IsoCreateStructure ==
    /\ prog = "iso" /\ pc = "structure"
    /\ \E fault \in BOOLEAN : create_iso_structure(fault)
    /\ UNCHANGED << inputs, outDirExists, outFile, success, exitCode, imgState,
                    isoState,
                    earlier >>

\* create_iso_with_grub: subprocess.run(['which', 'grub-mkrescue'])
GrubProbe ==
    /\ prog = "iso" /\ pc = "grub_probe"
    /\ attempts' = Append(attempts, "GrubRescue")
    /\ \E o \in ProbeOutcomes("grub-mkrescue") :
         /\ calls' = Append(calls, Call(<< "which", "grub-mkrescue" >>, o))
         /\ diagnostics' = diagnostics \o GrubDiagnostic("probe", o)
         /\ CASE GrubAfter("probe", o) = "run" ->
                   pc' = "grub_run" /\ UNCHANGED << results, success >>
              [] GrubAfter("probe", o) = "hang" ->
                   pc' = "blocked" /\ UNCHANGED << results, success >>
              [] OTHER ->
                   Return("GrubRescue", GrubAfter("probe", o) = "true")
    /\ cmdIdx' = IF pc' = "mkisofs_probe" THEN 1 ELSE cmdIdx
    /\ UNCHANGED << inputs, outDirExists, outFile, raised, exitCode, imgState,
                    tempDir, ioFault,
                    earlier, toolWrote >>

\* create_iso_with_grub: subprocess.run(['grub-mkrescue', '-o', ...])
GrubRun ==
    /\ prog = "iso" /\ pc = "grub_run"
    /\ \E o \in RunOutcomes :
         /\ calls' = Append(calls, Call(<< "grub-mkrescue" >>, o))
         /\ diagnostics' = diagnostics \o GrubDiagnostic("run", o)
         /\ ToolEffect(o)
         /\ CASE GrubAfter("run", o) = "hang" ->
                   pc' = "blocked" /\ UNCHANGED << results, success >>
              [] OTHER ->
                   Return("GrubRescue", GrubAfter("run", o) = "true")
    /\ cmdIdx' = IF pc' = "mkisofs_probe" THEN 1 ELSE cmdIdx
    /\ UNCHANGED << inputs, outDirExists, raised, exitCode, imgState, tempDir,
                    attempts, ioFault,
                    earlier >>

\* what create_iso_with_mkisofs does after a subprocess.run outcome
MkisofsStep(what) ==
    CASE what = "run"  -> /\ pc' = "mkisofs_run"
                          /\ UNCHANGED << cmdIdx, results, success >>
      [] what = "next" -> /\ pc' = "mkisofs_probe"
                          /\ cmdIdx' = cmdIdx + 1
                          /\ UNCHANGED << results, success >>
      [] what = "hang" -> /\ pc' = "blocked"
                          /\ UNCHANGED << cmdIdx, results, success >>
      [] OTHER         -> /\ Return("GenericIsoMaster", what = "true")
                          /\ UNCHANGED cmdIdx

\* create_iso_with_mkisofs: subprocess.run(['which', cmd_name])
MkisofsProbe ==
    /\ prog = "iso" /\ pc = "mkisofs_probe"
    /\ attempts' = IF cmdIdx = 1 THEN Append(attempts, "GenericIsoMaster")
                                 ELSE attempts
    /\ \E o \in ProbeOutcomes(CmdNames[cmdIdx]) :
         /\ calls' = Append(calls, Call(<< "which", CmdNames[cmdIdx] >>, o))
         /\ diagnostics' = diagnostics \o MkisofsDiagnostic(cmdIdx, "probe", o)
         /\ MkisofsStep(MkisofsAfter(cmdIdx, "probe", o))
    /\ UNCHANGED << inputs, outDirExists, outFile, raised, exitCode, imgState,
                    tempDir, ioFault,
                    earlier, toolWrote >>

\* create_iso_with_mkisofs: subprocess.run([cmd_name, '-b', ...])
MkisofsRun ==
    /\ prog = "iso" /\ pc = "mkisofs_run"
    /\ \E o \in RunOutcomes :
         /\ calls' = Append(calls, Call(<< CmdNames[cmdIdx] >>, o))
         /\ diagnostics' = diagnostics \o MkisofsDiagnostic(cmdIdx, "run", o)
         /\ ToolEffect(o)
         /\ MkisofsStep(MkisofsAfter(cmdIdx, "run", o))
    /\ UNCHANGED << inputs, outDirExists, raised, exitCode, imgState, tempDir,
                    attempts, ioFault,
                    earlier >>

\* SectorPadding without the test of line 131: a full sector of padding
\* is written after a bootloader that ends on a sector boundary
SectorPadding_AlwaysPad(current_pos) ==
    Zeros(sector_size - (current_pos % sector_size))

\* padding = sector_size - (current_pos % sector_size)
SectorPadding(current_pos) ==
    IF sector_size - (current_pos % sector_size) # sector_size
    THEN Zeros(sector_size - (current_pos % sector_size))
    ELSE << >>

\* the bytes written after the kernel (lines 140-143)
IsoTailPadding(current_pos) ==
    IF current_pos < IsoMinSize
    THEN Zeros(IsoMinSize - current_pos)
    ELSE << >>

\* the four f.write calls of create_simple_iso, in order (lines 125-143)
SimpleChunks(bootloader_data, kernel_data) ==
    LET pad1 == SectorPadding(Size(bootloader_data))
        cur  == Size(bootloader_data) + Size(pad1) + Size(kernel_data)
    IN  << bootloader_data, pad1, kernel_data, IsoTailPadding(cur) >>

\* the points where create_simple_iso can fail, in the order of the code
SimpleFaults == {"none", "open", "read_bootloader", "write1", "write2",
                 "read_kernel", "write3", "write4"}

\* the number of writes done before the operation that fails
SimpleWritesBefore(fault) ==
    CASE fault \in {"read_bootloader", "write1"} -> 0
      [] fault = "write2" -> 1
      [] fault \in {"read_kernel", "write3"} -> 2
      [] fault = "write4" -> 3
      [] OTHER -> 4

\* an output opened in append mode: what the file holds is kept
SimpleOpenOutput_Append(existing) == existing

\* open(output_path, 'wb'), line 121: what is left of the file's content
SimpleOpenOutput(existing) == << >>

\* create_simple_iso(kernel_path, bootloader_path, output_path), with the
\* I/O operation that fails, if any; every exception is caught
create_simple_iso(fault) ==
    /\ ioFault' = (ioFault \/ fault # "none")
    /\ diagnostics' = diagnostics \o SimpleDiagnostic(fault)
    /\ IF fault = "open"
       THEN UNCHANGED outFile
       ELSE \* open(output_path, 'wb') creates or truncates the file
            /\ outExists' = TRUE
            /\ outData' = Concat(SimpleOpenOutput(outData),
                                 Written(SimpleChunks(bootData, kernelData),
                                         SimpleWritesBefore(fault)))
    /\ Return("RawFallback", fault = "none")

IsoCreateSimple ==
    /\ prog = "iso" /\ pc = "simple"
    /\ attempts' = Append(attempts, "RawFallback")
    /\ \E fault \in SimpleFaults : create_simple_iso(fault)
    /\ UNCHANGED << inputs, outDirExists, raised, exitCode, imgState, tempDir,
                    cmdIdx, calls,
                    earlier, toolWrote >>

\* a cleanup that is skipped when the with block is left by an exception
TemporaryDirectoryExit_KeepOnError(byException) ==
    IF byException THEN "exists" ELSE "removed"

\* TemporaryDirectory.__exit__: what becomes of the staging directory when
\* the with block is left, normally or by an exception
TemporaryDirectoryExit(byException) == "removed"

IsoLeaveTempDir ==
    /\ prog = "iso" /\ pc = "cleanup"
    /\ tempDir' = TemporaryDirectoryExit(raised)
    /\ pc' = "report"
    /\ UNCHANGED << inputs, outDirExists, outFile, success, raised, exitCode,
                    imgState, cmdIdx, calls, attempts, results, diagnostics,
                    ioFault,
                    earlier, toolWrote >>

\* lines 206-214 of main; an uncaught exception ends the process with status 1
IsoExit ==
    /\ prog = "iso" /\ pc = "report"
    /\ exitCode' = IF success /\ ~raised THEN 0 ELSE 1
    /\ pc' = "done"
    /\ UNCHANGED << inputs, outDirExists, outFile, success, raised, imgState,
                    isoState, ioFault,
                    earlier >>

Next ==
    \/ ImgValidate
    \/ ImgMakeOutputDir
    \/ ImgCreate
    \/ ImgExit
    \/ ImgRerun
    \/ IsoValidate
    \/ IsoMakeOutputDir
    \/ IsoEnterTempDir
    \/ IsoCreateStructure
    \/ GrubProbe
    \/ GrubRun
    \/ MkisofsProbe
    \/ MkisofsRun
    \/ IsoCreateSimple
    \/ IsoLeaveTempDir
    \/ IsoExit

Spec == Init /\ [][Next]_vars

(***************************************************************************)
(* Properties.                                                             *)
(***************************************************************************)
Max(a, b) == IF a >= b THEN a ELSE b

\* m is the smallest multiple of unit that is >= n
SmallestMultipleAtLeast(m, unit, n) ==
    /\ m % unit = 0
    /\ m >= n
    /\ m - unit < n

\* roundUpToMultiple of the specification
RoundUpToMultiple(n, unit) == ((n + unit - 1) \div unit) * unit

\* the raw image builder has returned True
ImageBuilt == prog = "image" /\ pc \in {"report", "done"} /\ success

\* s is a prefix of t
IsPrefix(s, t) == Len(s) <= Len(t) /\ \A i \in 1..Len(s) : s[i] = t[i]

Strategies == << "GrubRescue", "GenericIsoMaster", "RawFallback" >>

\* main has left the with block of the packaging chain
LeftChain == pc \in {"report", "done"}

\* C1: whenever the raw image builder has computed kernel_offset, it is the
\* smallest multiple of 1 MiB that is >= the bootloader size; for a
\* bootloader that is a multiple of 1 MiB (0 included) it is the bootloader
\* size itself, and no byte lies between bootloader and kernel.
C1_KernelOffset ==
    (prog = "image" /\ kernel_offset # -1) =>
        /\ SmallestMultipleAtLeast(kernel_offset, MiB, Size(bootData))
        /\ (Size(bootData) % MiB = 0 => kernel_offset = Size(bootData))
        /\ Size(Take(outData, kernel_offset)) = kernel_offset
        /\ (Size(bootData) % MiB = 0 =>
               Take(outData, kernel_offset) = bootData)

\* a build of a bootloader of exactly 1 MiB has put the kernel at 1 MiB
C1_Witness ==
    /\ ImageBuilt /\ pc = "done"
    /\ Size(bootData) = MiB
    /\ kernel_offset = MiB

\* C2: after a successful raw image build the file starts with the
\* bootloader, holds the kernel at the 1 MiB aligned offset, and is 0x00
\* everywhere else up to its end.
C2_ImageLayout ==
    ImageBuilt =>
        LET b   == Size(bootData)
            k   == Size(kernelData)
            off == RoundUpToMultiple(b, MiB)
        IN  /\ outExists
            /\ Size(outData) >= off + k
            /\ Take(outData, b) = bootData
            /\ Slice(outData, off, off + k) = kernelData
            /\ AllZero(Slice(outData, b, off))
            /\ AllZero(Drop(outData, off + k))

\* a build whose bootloader and kernel both hold non-zero bytes and zero
\* bytes, with padding before and after the kernel
C2_Witness ==
    /\ ImageBuilt /\ pc = "done"
    /\ Len(bootData) = 2 /\ Len(kernelData) = 2
    /\ Size(bootData) % MiB # 0
    /\ Size(bootData) + Size(kernelData) < ImageMinSize - MiB

C4_MinimumSize ==
    ImageBuilt =>
        /\ Size(outData) >= RoundUpToMultiple(Size(bootData), MiB) + Size(kernelData)
        /\ Size(outData) >= 16 * MiB
        /\ (Size(bootData) = 512 /\ Size(kernelData) = 2 * MiB) =>
               Size(outData) = 16777216

\* the build of a 512-byte bootloader and a 2 MiB kernel
C4_Witness ==
    /\ ImageBuilt /\ pc = "done"
    /\ Size(bootData) = 512
    /\ Size(kernelData) = 2 * MiB
    /\ kernel_offset = MiB

\* C5: the strategies are attempted in the order GrubRescue,
\* GenericIsoMaster, RawFallback; one is attempted only after every earlier
\* one has returned failure; a strategy that returns success is the last one
\* attempted and main leaves the chain with success set; at most one succeeds.
C5_ChainOrder ==
    prog = "iso" =>
        /\ IsPrefix(attempts, Strategies)
        /\ Len(results) <= Len(attempts)
        /\ Len(attempts) <= Len(results) + 1
        /\ \A i \in 1..Len(attempts) : \A j \in 1..(i - 1) :
               j <= Len(results) /\ ~results[j]
        /\ \A i \in 1..Len(results) :
               results[i] => /\ i = Len(attempts)
                             /\ success
                             /\ pc \in {"cleanup", "report", "done"}
        /\ Cardinality({ i \in 1..Len(results) : results[i] }) <= 1
        /\ (pc \in {"cleanup", "report", "done"} /\ ~success /\ ~raised
                /\ kernelExists /\ bootExists) =>
               results = << FALSE, FALSE, FALSE >>

\* GenericIsoMaster has succeeded after GrubRescue failed
C5_Witness ==
    /\ prog = "iso" /\ pc = "done"
    /\ attempts = << "GrubRescue", "GenericIsoMaster" >>
    /\ results = << FALSE, TRUE >>

\* every `which` probe of this run reported its tool missing
NoToolFound ==
    /\ installed = {}
    /\ \A i \in 1..Len(calls) : calls[i].out = "nonzero"

\* C6: on a host without grub-mkrescue, mkisofs and genisoimage, with no I/O
\* error, a finished ISO build has made the three `which` probes and no other
\* call, GrubRescue and GenericIsoMaster have failed in that order, RawFallback
\* has succeeded and the exit code is 0.
C6_NoToolsFallback ==
    (prog = "iso" /\ pc = "done" /\ kernelExists /\ bootExists
        /\ NoToolFound /\ ~ioFault) =>
        /\ calls = << Call(<< "which", "grub-mkrescue" >>, "nonzero"),
                      Call(<< "which", "mkisofs" >>, "nonzero"),
                      Call(<< "which", "genisoimage" >>, "nonzero") >>
        /\ attempts = Strategies
        /\ results = << FALSE, FALSE, TRUE >>
        /\ success
        /\ exitCode = 0

\* such a build has finished
C6_Witness ==
    /\ prog = "iso" /\ pc = "done" /\ kernelExists /\ bootExists
    /\ NoToolFound /\ ~ioFault
    /\ Len(calls) = 3
    /\ exitCode = 0

\* all three strategies have returned failure
AllExhausted ==
    prog = "iso" /\ results = << FALSE, FALSE, FALSE >>

\* C7: when an ISO build has ended with every strategy failed, no file
\* exists at the output path (here: of a build that found none there).
C7_NoFileAfterExhaustion ==
    (AllExhausted /\ pc = "done" /\ ~outAtStart[1]) => ~outExists

\* C8: once main has left the packaging chain of an ISO build that created
\* a staging directory, the directory is removed, on every path; it exists
\* only inside the chain, and never once the exit status is set.
C8_StagingRemoved ==
    prog = "iso" =>
        /\ (pc = "report" => tempDir = "removed")
        /\ (pc = "done" /\ kernelExists /\ bootExists => tempDir = "removed")
        /\ (exitCode # -1 => tempDir # "exists")
        /\ (tempDir = "exists" =>
               pc \in {"structure", "grub_probe", "grub_run", "mkisofs_probe",
                       "mkisofs_run", "simple", "cleanup", "blocked"})

\* staging raised an error and the build has exited
C8_Witness ==
    /\ prog = "iso" /\ pc = "done"
    /\ raised
    /\ tempDir = "removed"
    /\ exitCode = 1

\* the tool a subprocess.run call is about
ToolOf(c) == c.cmd[Len(c.cmd)]

IsProbe(c) == c.cmd[1] = "which"

\* the calls create_iso_with_mkisofs has made
MkCalls == SelectSeq(calls, LAMBDA c : ToolOf(c) \in {"mkisofs", "genisoimage"})

\* C9 as stated: GenericIsoMaster invokes at most one tool, so that
\* genisoimage is not invoked after mkisofs has exited non-zero.
C9_Original ==
    prog = "iso" =>
        Cardinality({ i \in 1..Len(MkCalls) : ~IsProbe(MkCalls[i]) }) <= 1

\* C9 amended: GenericIsoMaster probes mkisofs first; it invokes a tool only
\* right after the probe found it; it probes genisoimage only right after
\* mkisofs was reported missing or was invoked and exited non-zero; its
\* result is success exactly when its last call is an invocation that exited
\* 0; and when mkisofs exits non-zero and genisoimage is installed and its
\* probe returns, genisoimage is invoked.
C9_GenericIsoMaster ==
    prog = "iso" =>
        /\ \A i \in 1..Len(MkCalls) :
             LET c == MkCalls[i] IN
             /\ (i = 1) = (c.cmd = << "which", "mkisofs" >>)
             /\ ~IsProbe(c) =>
                    i > 1 /\ MkCalls[i - 1] = Call(<< "which", ToolOf(c) >>, "zero")
             /\ c.cmd = << "which", "genisoimage" >> =>
                    /\ i > 1
                    /\ MkCalls[i - 1] \in
                         { Call(<< "which", "mkisofs" >>, "nonzero"),
                           Call(<< "mkisofs" >>, "nonzero") }
        /\ Len(results) >= 2 =>
             /\ Len(MkCalls) >= 1
             /\ results[2] = (MkCalls[Len(MkCalls)].out = "zero"
                                /\ ~IsProbe(MkCalls[Len(MkCalls)]))
        /\ \A i \in 1..Len(MkCalls) :
             (MkCalls[i] = Call(<< "mkisofs" >>, "nonzero") /\ Len(results) >= 2) =>
                /\ Len(MkCalls) > i
                /\ MkCalls[i + 1].cmd = << "which", "genisoimage" >>
                /\ MkCalls[i + 1].out = "zero" =>
                       /\ Len(MkCalls) > i + 1
                       /\ MkCalls[i + 2].cmd = << "genisoimage" >>

\* mkisofs was invoked and exited non-zero, genisoimage was then invoked and
\* exited 0, and the strategy returned success
C9_Witness ==
    /\ prog = "iso" /\ pc = "done"
    /\ MkCalls = << Call(<< "which", "mkisofs" >>, "zero"),
                    Call(<< "mkisofs" >>, "nonzero"),
                    Call(<< "which", "genisoimage" >>, "zero"),
                    Call(<< "genisoimage" >>, "zero") >>
    /\ results = << FALSE, TRUE >>

\* C10: every ISO build eventually ends, also when a call of an external
\* tool never returns: an ISO build that has not exited can take a step (a
\* call that has not returned is ended by its timeout).
C10_NeverStuck == prog = "iso" => (pc = "done" \/ ENABLED Next)

\* C11: a finished ISO build has exit code 0 exactly when a strategy has
\* returned success, and 1 otherwise; once staging has succeeded, exit code 1
\* means that all three strategies have returned failure, whatever made
\* GrubRescue and GenericIsoMaster fail.
C11_ExitCode ==
    (prog = "iso" /\ pc = "done") =>
        /\ exitCode \in {0, 1}
        /\ (exitCode = 0) = (\E i \in 1..Len(results) : results[i])
        /\ (exitCode = 1 /\ attempts # << >>) =>
               /\ attempts = Strategies
               /\ results = << FALSE, FALSE, FALSE >>

\* a build that exits 0 through RawFallback after grub-mkrescue raised an
\* exception and an ISO mastering tool exited non-zero
C11_Witness ==
    /\ prog = "iso" /\ pc = "done"
    /\ exitCode = 0
    /\ results = << FALSE, FALSE, TRUE >>
    /\ \E i \in 1..Len(calls) : calls[i] = Call(<< "grub-mkrescue" >>, "raise")
    /\ \E i \in 1..Len(calls) : ~IsProbe(calls[i]) /\ calls[i].out = "nonzero"

\* C12: in both entry points, when the kernel or the bootloader path does not
\* exist the run goes from validation straight to exit code 1: the output's
\* parent directory is not created, no staging directory is created, no
\* strategy is attempted, no tool is called, and the file at the output path
\* is as it was (absent, or present with the same content).
C12_MissingInput ==
    ~(kernelExists /\ bootExists) =>
        /\ pc \in {"validate", "done"}
        /\ (pc = "done" => exitCode = 1)
        /\ (pc = "validate" => exitCode = -1)
        /\ outDirExists = outDirAtStart
        /\ << outExists, outData >> = outAtStart
        /\ tempDir = "none"
        /\ attempts = << >>
        /\ calls = << >>
        /\ ~success

\* an ISO build with the kernel present and the bootloader missing, and an
\* output directory that does not exist, has exited
C12_Witness ==
    /\ prog = "iso" /\ pc = "done"
    /\ kernelExists /\ ~bootExists
    /\ ~outDirAtStart
    /\ exitCode = 1

\* C13: when an ISO build has ended with all strategies exhausted, a failure
\* message has been printed for each of the three strategies.
C13_AllDiagnosed ==
    (AllExhausted /\ pc = "done") =>
        \A k \in 1..Len(Strategies) :
            \E i \in 1..Len(diagnostics) : diagnostics[i].strategy = Strategies[k]

\* RawFallback has returned success
FallbackSucceeded ==
    /\ prog = "iso"
    /\ attempts = Strategies
    /\ results = << FALSE, FALSE, TRUE >>

\* C14: after a successful RawFallback the file starts with the bootloader,
\* holds the kernel at the smallest multiple of 512 that is >= the bootloader
\* size, is max(kernelStart + kernelSize, 2 MiB) bytes long, and is 0x00
\* everywhere else.
C14_FallbackLayout ==
    FallbackSucceeded =>
        LET b     == Size(bootData)
            k     == Size(kernelData)
            start == RoundUpToMultiple(b, 512)
        IN  /\ SmallestMultipleAtLeast(start, 512, b)
            /\ outExists
            /\ Size(outData) = Max(start + k, 2 * MiB)
            /\ Take(outData, b) = bootData
            /\ Slice(outData, start, start + k) = kernelData
            /\ AllZero(Slice(outData, b, start))
            /\ AllZero(Drop(outData, start + k))

\* a RawFallback image of a two-run bootloader that needs sector padding and
\* a two-run kernel that ends before 2 MiB
C14_Witness ==
    /\ FallbackSucceeded /\ pc = "done"
    /\ Len(bootData) = 2 /\ Len(kernelData) = 2
    /\ Size(bootData) % 512 # 0
    /\ Size(bootData) + Size(kernelData) < 2 * MiB - 512

\* C15: a second run of the raw image builder on the same bootloader and
\* kernel, for either architecture and whatever the output path held when it
\* started, builds the same bytes as the first run.
C15_Idempotent ==
    (rerun /\ ImageBuilt) => (outExists /\ outData = firstOut)

\* a second run for x86_64 has built its image over a longer file that was
\* left at the output path
C15_Witness ==
    /\ rerun /\ ImageBuilt /\ pc = "done"
    /\ arch = "x86_64"
    /\ outAtStart[1] /\ outAtStart[2] \in OldOutputs
    /\ Len(bootData) = 2 /\ Len(kernelData) = 2
    /\ outData = firstOut

\* a packaging tool has been invoked and has failed
ToolFailed ==
    \E i \in 1..Len(calls) :
        ~IsProbe(calls[i]) /\ calls[i].out \in {"nonzero", "raise"}

\* C16: when RawFallback succeeds after a packaging tool was invoked and
\* failed, whatever that tool left at the output path, the file is the
\* bootloader, zeros up to the next multiple of 512, the kernel, and zeros up
\* to 2 MiB, and nothing else: its length is decided by the two inputs alone.
C16_FallbackOverwrites ==
    (FallbackSucceeded /\ ToolFailed) =>
        LET b     == Size(bootData)
            k     == Size(kernelData)
            start == RoundUpToMultiple(b, 512)
            total == Max(start + k, 2 * MiB)
        IN  /\ outExists
            /\ outData = Concat(Concat(Concat(bootData, Zeros(start - b)),
                                       kernelData),
                                Zeros(total - (start + k)))

\* RawFallback has succeeded after a failed tool left more bytes at the
\* output path than the fallback image holds
C16_Witness ==
    /\ FallbackSucceeded /\ ToolFailed /\ pc = "done"
    /\ toolWrote
    /\ bootData # << >> /\ kernelData # << >>
    /\ Size(outData) < Size(ToolPartial)

====
